---------------------------- MODULE Spec2Model ----------------------------
(***************************************************************************)
(* A model of the position simulator and metrics aggregator of            *)
(* engine/backtest.py (backtest) and of the multi-ticker batch of         *)
(* run_all_strategies.py.                                                  *)
(*                                                                         *)
(* Numbers are exact rationals <<n, d>> in lowest terms with d > 0.  The   *)
(* three values with d = 0 are the non-finite floats pandas produces       *)
(* without raising: <<0,0>> is NaN, <<1,0>> is +inf, <<-1,0>> is -inf.      *)
(***************************************************************************)
EXTENDS Integers, Sequences, FiniteSets, TLC

(***************************************************************************)
(* Bounds of the model and the program's constants.                        *)
(***************************************************************************)
MaxLen == 4
MaxPrice == 2
MaxLenAny == 2
MaxLenBatch == 1
MaxLenScenario == 4
MaxLenRepeat == 2
MaxRows == 2
DefaultCapital == 100000

(***************************************************************************)
(* Rational arithmetic.                                                    *)
(***************************************************************************)
Abs(x) == IF x < 0 THEN -x ELSE x

RECURSIVE Gcd(_, _)
Gcd(a, b) == IF b = 0 THEN a ELSE Gcd(b, a % b)

Rat(n, d) ==
    LET g == Gcd(Abs(n), Abs(d))
        s == IF d < 0 THEN -1 ELSE 1
    IN  <<s * (n \div g), s * (d \div g)>>

Int2R(n) == <<n, 1>>
Zero == <<0, 1>>
One == <<1, 1>>
NaN == <<0, 0>>
PosInf == <<1, 0>>
NegInf == <<-1, 0>>

IsFinite(x) == x[2] # 0
IsNaN(x) == x = NaN

\* sums and products cancel common factors first, which keeps the
\* intermediate values within 32-bit integers
RAdd(x, y) ==
    LET g == Gcd(x[2], y[2])
    IN  Rat(x[1] * (y[2] \div g) + y[1] * (x[2] \div g), (x[2] \div g) * y[2])
RNeg(x) == <<-x[1], x[2]>>
RSub(x, y) == RAdd(x, RNeg(y))
RMul(x, y) ==
    LET g1 == Gcd(Abs(x[1]), y[2])
        g2 == Gcd(Abs(y[1]), x[2])
    IN  Rat((x[1] \div g1) * (y[1] \div g2), (x[2] \div g2) * (y[2] \div g1))
RDiv(x, y) == RMul(x, IF y[1] < 0 THEN <<-y[2], -y[1]>> ELSE <<y[2], y[1]>>)
RLt(x, y) == x[1] * y[2] < y[1] * x[2]
RLe(x, y) == x[1] * y[2] <= y[1] * x[2]
RPos(x) == x[1] > 0
RNegative(x) == x[1] < 0
RIsZero(x) == x[1] = 0

RECURSIVE RSum(_)
RSum(s) == IF s = <<>> THEN Zero ELSE RAdd(Head(s), RSum(Tail(s)))

(***************************************************************************)
(* Elementwise float division as numpy does it: x / 0 is NaN or an         *)
(* infinity, never an exception.  Both operands are finite.                *)
(***************************************************************************)
NpDiv(x, y) ==
    IF ~RIsZero(y) THEN RDiv(x, y)
    ELSE IF RIsZero(x) THEN NaN
    ELSE IF RPos(x) THEN PosInf ELSE NegInf

\* x - 1 on a float that may be non-finite
NpMinusOne(x) == IF IsFinite(x) THEN RSub(x, One) ELSE x


(***************************************************************************)
(* State.  backtest(df, initial_capital, fee): df is the frame of rows     *)
(* [Close, signal] that zip has yielded so far (the loop reads the frame   *)
(* one row at a time and the frame ends when the loop is left), capital,   *)
(* position, equity and trades are the locals of lines 22-25, pc is the    *)
(* position in the function, exc the exception that left it, results the   *)
(* returned dict.  The batch of run_all_strategies.py has its own state:   *)
(* frames is what the strategy function returns for each ticker, t the     *)
(* number of tickers the loop has handled, batch_results the dict          *)
(* `results`, saved the argument save_results_to_excel was called with.    *)
(* workbook is the content of strategies_results.xlsx, a dict from sheet   *)
(* name to the rows of the sheet, empty while the file does not exist.     *)
(* remembered holds the arguments and the outcome of one earlier call of   *)
(* backtest, against which later calls are compared.                       *)
(***************************************************************************)
VARIABLES df, initial_capital, fee, capital, position, equity, trades,
          pc, exc, results,
          frames, t, batch_results, saved, bpc,
          workbook, remembered

vars == <<df, initial_capital, fee, capital, position, equity, trades,
          pc, exc, results, frames, t, batch_results, saved, bpc,
          workbook, remembered>>

simVars == <<df, initial_capital, fee, capital, position, equity, trades,
             pc, exc, results>>
batchVars == <<frames, t, batch_results, saved, bpc>>
outerVars == <<workbook, remembered>>

Signals == {-1, 0, 1}
Prices == 1..MaxPrice
Fees == {Zero, Rat(1, 10)}
InitialCapitals == {DefaultCapital}
Row(price, signal) == [Close |-> price, signal |-> signal]

\* inputs that break the contract of section 4.1
AnyPrices == {-1, 0, 1, 2}
AnyFees == {Zero, Rat(1, 2), One, Rat(3, 2), Rat(-1, 2)}

ValidInput ==
    /\ \A k \in 1..Len(df) : df[k].Close > 0
    /\ RLe(Zero, fee) /\ RLt(fee, One)

(***************************************************************************)
(* The loop body, lines 27-40.                                             *)
(***************************************************************************)
SimState(c, p, e, tr) == [capital |-> c, position |-> p, equity |-> e, trades |-> tr]

BuyCondAlways(signal, pos) == signal = 1
BuyCondNotSell(signal, pos) == signal # -1 /\ RIsZero(pos)
BuyCond(signal, pos) == signal = 1 /\ RIsZero(pos)

SellCondAlways(signal, pos) == signal = -1
SellCond(signal, pos) == signal = -1 /\ RPos(pos)

EntryPrice(price, f) == RMul(Int2R(price), RAdd(One, f))
ExitPrice(price, f) == RMul(Int2R(price), RSub(One, f))

EnterKeepCash(st, price, f) ==
    [st EXCEPT !.position = RDiv(st.capital, Int2R(price)),
               !.trades = Append(st.trades, <<"buy", EntryPrice(price, f)>>)]
EnterNetOfFee(st, price, f) ==
    [st EXCEPT !.position = RDiv(st.capital, EntryPrice(price, f)),
               !.capital = Zero,
               !.trades = Append(st.trades, <<"buy", EntryPrice(price, f)>>)]
Enter(st, price, f) ==
    [st EXCEPT !.position = RDiv(st.capital, Int2R(price)),
               !.capital = Zero,
               !.trades = Append(st.trades, <<"buy", EntryPrice(price, f)>>)]

ExitRawPrice(st, price, f) ==
    [st EXCEPT !.capital = RMul(st.position, Int2R(price)),
               !.position = Zero,
               !.trades = Append(st.trades, <<"sell", ExitPrice(price, f)>>)]
ExitZeroFirst(st, price, f) ==
    [st EXCEPT !.capital = Zero,
               !.position = Zero,
               !.trades = Append(st.trades, <<"sell", ExitPrice(price, f)>>)]
Exit(st, price, f) ==
    [st EXCEPT !.capital = RMul(st.position, ExitPrice(price, f)),
               !.position = Zero,
               !.trades = Append(st.trades, <<"sell", ExitPrice(price, f)>>)]

MarkCashOnly(c, p, price) == c
MarkNetOfFee(c, p, price) == RAdd(c, RMul(p, ExitPrice(price, fee)))
Mark(c, p, price) == RAdd(c, RMul(p, Int2R(price)))

\* line 30 divides two Python numbers: a zero price raises ZeroDivisionError
StepRaises(st, price, signal) == BuyCond(signal, st.position) /\ price = 0

Transition(st, price, signal, f) ==
    IF BuyCond(signal, st.position) THEN Enter(st, price, f)
    ELSE IF SellCond(signal, st.position) THEN Exit(st, price, f)
    ELSE st

LoopBodyOnTransition(st, price, signal, f) ==
    LET n == Transition(st, price, signal, f)
    IN  IF n = st THEN st
        ELSE [n EXCEPT !.equity = Append(n.equity, Mark(n.capital, n.position, price))]

LoopBody(st, price, signal, f) ==
    LET n == Transition(st, price, signal, f)
    IN  [n EXCEPT !.equity = Append(n.equity, Mark(n.capital, n.position, price))]


(***************************************************************************)
(* The metrics, lines 42-64.  Real arithmetic stands for the floats.       *)
(***************************************************************************)
RMax(x, y) == IF RLt(x, y) THEN y ELSE x

\* equity.cummax()
RECURSIVE RunningPeak(_, _)
RunningPeak(s, k) == IF k = 1 THEN s[1] ELSE RMax(RunningPeak(s, k - 1), s[k])
CumMaxGlobal(s) == [k \in 1..Len(s) |-> RunningPeak(s, Len(s))]
CumMax(s) == [k \in 1..Len(s) |-> RunningPeak(s, k)]

\* (equity - cum_max) / cum_max
Drawdown(s) ==
    LET cm == CumMax(s)
    IN  [k \in 1..Len(s) |-> NpDiv(RSub(s[k], cm[k]), cm[k])]

NotNaN(x) == ~IsNaN(x)

\* Series.min(): NaN is skipped, an empty series gives NaN
RECURSIVE MinFinite(_)
MinFinite(s) ==
    IF Len(s) = 1 THEN s[1]
    ELSE LET m == MinFinite(Tail(s)) IN IF RLt(m, s[1]) THEN m ELSE s[1]
SeriesMin(s) ==
    LET v == SelectSeq(s, NotNaN) IN IF v = <<>> THEN NaN ELSE MinFinite(v)

\* equity.pct_change().dropna()
PctChange(s) ==
    [k \in 1..Len(s) |->
        IF k = 1 THEN NaN ELSE NpMinusOne(NpDiv(s[k], s[k - 1]))]
Returns(s) == SelectSeq(PctChange(s), NotNaN)

AllFinite(s) == \A k \in 1..Len(s) : IsFinite(s[k])
Mean(s) == RDiv(RSum(s), Int2R(Len(s)))
\* Series.std() is the sample deviation (ddof = 1); this is its square
Variance(s) ==
    LET m == Mean(s)
        dev == [k \in 1..Len(s) |-> RMul(RSub(s[k], m), RSub(s[k], m))]
    IN  RDiv(RSum(dev), Int2R(Len(s) - 1))

(***************************************************************************)
(* Line 50.  std() is NaN for fewer than two returns or a non-finite one,  *)
(* and NaN is truthy, so the quotient is taken and is NaN; std() = 0 takes *)
(* the else branch.  A defined sharpe is mean / sqrt(var) * sqrt(252): the *)
(* record keeps mean and var.                                              *)
(***************************************************************************)
Sharpe(s) ==
    LET r == Returns(s)
    IN  IF Len(r) >= 2 /\ AllFinite(r) /\ ~RIsZero(Variance(r))
        THEN [defined |-> TRUE, mean |-> Mean(r), var |-> Variance(r)]
        ELSE [defined |-> FALSE, mean |-> NaN, var |-> NaN]

\* lines 52-56
PnlShifted(tr) ==
    [k \in 1..((Len(tr) - 1) \div 2) |-> RSub(tr[2 * k + 1][2], tr[2 * k][2])]
Pnl(tr) ==
    [k \in 1..(Len(tr) \div 2) |-> RSub(tr[2 * k][2], tr[2 * k - 1][2])]

NonNegative(x) == ~RNegative(x)
WinsWithBreakEven(pnl) == SelectSeq(pnl, NonNegative)
Wins(pnl) == SelectSeq(pnl, RPos)
Losses(pnl) == SelectSeq(pnl, RNegative)

WinRate(pnl) ==
    IF Len(pnl) # 0 THEN Rat(Len(Wins(pnl)), Len(pnl)) ELSE NaN
AvgWin(pnl) == IF Wins(pnl) # <<>> THEN Mean(Wins(pnl)) ELSE Zero
AvgLoss(pnl) == IF Losses(pnl) # <<>> THEN Mean(Losses(pnl)) ELSE Zero
ProfitFactorUnsigned(pnl) ==
    IF Losses(pnl) # <<>>
    THEN RDiv(RSum(Wins(pnl)), RSum(Losses(pnl)))
    ELSE NaN
ProfitFactor(pnl) ==
    IF Losses(pnl) # <<>>
    THEN RDiv(RNeg(RSum(Wins(pnl))), RSum(Losses(pnl)))
    ELSE NaN

\* line 45: equity.iloc[-1] of an empty series raises IndexError
ReportRaises(e) == e = <<>>

\* lines 45-77
Report(e, tr, cap) ==
    LET pnl == Pnl(tr)
    IN  [equity_curve |-> e,
         final_value |-> e[Len(e)],
         total_return |-> RSub(RDiv(e[Len(e)], Int2R(cap)), One),
         max_drawdown |-> SeriesMin(Drawdown(e)),
         sharpe |-> Sharpe(e),
         trade_count |-> Len(pnl),
         win_rate |-> WinRate(pnl),
         avg_win |-> AvgWin(pnl),
         avg_loss |-> AvgLoss(pnl),
         profit_factor |-> ProfitFactor(pnl)]

NoReport == [trade_count |-> -1]

(***************************************************************************)
(* backtest as a state machine.                                            *)
(***************************************************************************)
Cur == SimState(capital, position, equity, trades)

SimStart(cap, f) ==
    /\ df = <<>>
    /\ initial_capital = cap
    /\ fee = f
    /\ capital = Int2R(cap)
    /\ position = Zero
    /\ equity = <<>>
    /\ trades = <<>>
    /\ pc = "loop"
    /\ exc = "none"
    /\ results = NoReport

EmptyDict == [x \in {} |-> 0]

BatchIdle ==
    /\ frames = <<>>
    /\ t = 0
    /\ batch_results = <<>>
    /\ saved = <<>>
    /\ bpc = "idle"

\* no workbook file, no earlier call
OuterIdle ==
    /\ workbook = EmptyDict
    /\ remembered = <<>>

SimIdle ==
    /\ df = <<>>
    /\ initial_capital = DefaultCapital
    /\ fee = Zero
    /\ capital = Int2R(DefaultCapital)
    /\ position = Zero
    /\ equity = <<>>
    /\ trades = <<>>
    /\ pc = "idle"
    /\ exc = "none"
    /\ results = NoReport

\* one iteration of the for loop of line 27 on the row (price, signal)
Iterate(price, signal) ==
    /\ pc = "loop"
    /\ df' = Append(df, Row(price, signal))
    /\ IF StepRaises(Cur, price, signal)
       THEN /\ pc' = "raised"
            /\ exc' = "ZeroDivisionError"
            /\ UNCHANGED <<capital, position, equity, trades>>
       ELSE LET n == LoopBody(Cur, price, signal, fee)
            IN  /\ capital' = n.capital
                /\ position' = n.position
                /\ equity' = n.equity
                /\ trades' = n.trades
                /\ UNCHANGED <<pc, exc>>
    /\ UNCHANGED <<initial_capital, fee, results>>
    /\ UNCHANGED batchVars
    /\ UNCHANGED outerVars

\* the frame is exhausted: lines 42-94
Aggregate ==
    /\ pc = "loop"
    /\ IF ReportRaises(equity)
       THEN /\ pc' = "raised"
            /\ exc' = "IndexError"
            /\ UNCHANGED results
       ELSE /\ pc' = "done"
            /\ results' = Report(equity, trades, initial_capital)
            /\ UNCHANGED exc
    /\ UNCHANGED <<df, initial_capital, fee, capital, position, equity, trades>>
    /\ UNCHANGED batchVars
    /\ UNCHANGED outerVars

LoopStep ==
    /\ Len(df) < MaxLen
    /\ \E price \in Prices, signal \in Signals : Iterate(price, signal)

Init ==
    /\ \E cap \in InitialCapitals, f \in Fees : SimStart(cap, f)
    /\ BatchIdle
    /\ OuterIdle

Next == LoopStep \/ Aggregate

Spec == Init /\ [][Next]_vars

(***************************************************************************)
(* The runs of the scenarios of section 8 of the design: scenario C        *)
(* (prices 100 and 110, fee 0.01 or none, the default capital) and         *)
(* scenario A (prices 9 to 12, capital 100, no fee).                       *)
(***************************************************************************)
ScenarioCPrices == {100, 110}
ScenarioCFees == {Zero, Rat(1, 100)}
ScenarioAPrices == {9, 10, 11, 12}

LoopStepScenarioC ==
    /\ Len(df) < MaxLenScenario
    /\ \E price \in ScenarioCPrices, signal \in Signals : Iterate(price, signal)

InitScenarioC ==
    /\ \E f \in ScenarioCFees : SimStart(DefaultCapital, f)
    /\ BatchIdle
    /\ OuterIdle

NextScenarioC == LoopStepScenarioC \/ Aggregate

SpecScenarioC == InitScenarioC /\ [][NextScenarioC]_vars

LoopStepScenarioA ==
    /\ Len(df) < MaxLenScenario
    /\ \E price \in ScenarioAPrices, signal \in Signals : Iterate(price, signal)

InitScenarioA ==
    /\ SimStart(100, Zero)
    /\ BatchIdle
    /\ OuterIdle

NextScenarioA == LoopStepScenarioA \/ Aggregate

SpecScenarioA == InitScenarioA /\ [][NextScenarioA]_vars

\* the same function called without regard for the contract of its inputs
LoopStepAny ==
    /\ Len(df) < MaxLenAny
    /\ \E price \in AnyPrices, signal \in Signals : Iterate(price, signal)

InitAny ==
    /\ \E f \in AnyFees : SimStart(DefaultCapital, f)
    /\ BatchIdle
    /\ OuterIdle

NextAny == LoopStepAny \/ Aggregate

SpecAny == InitAny /\ [][NextAny]_vars


(***************************************************************************)
(* backtest as a function of its arguments, for the callers: the same      *)
(* loop body and report, folded over the rows.                             *)
(***************************************************************************)
RECURSIVE RunLoop(_, _, _)
RunLoop(st, rows, f) ==
    IF rows = <<>> THEN [exc |-> "none", st |-> st]
    ELSE IF StepRaises(st, Head(rows).Close, Head(rows).signal)
         THEN [exc |-> "ZeroDivisionError", st |-> st]
         ELSE RunLoop(LoopBody(st, Head(rows).Close, Head(rows).signal, f),
                      Tail(rows), f)

Backtest(rows, cap, f) ==
    LET r == RunLoop(SimState(Int2R(cap), Zero, <<>>, <<>>), rows, f)
    IN  IF r.exc # "none" THEN [exc |-> r.exc, report |-> NoReport]
        ELSE IF ReportRaises(r.st.equity)
             THEN [exc |-> "IndexError", report |-> NoReport]
             ELSE [exc |-> "none",
                   report |-> Report(r.st.equity, r.st.trades, cap)]

(***************************************************************************)
(* The batch of run_all_strategies.py, lines 54-96.  frames[k] is what the *)
(* script gets for tickers[k]: no column for the ticker in df_raw (kind    *)
(* "nokey"), a frame without a Close column ("noclose"), a strategy call   *)
(* that raises ("raises"), or the frame the strategy returns ("frame").    *)
(* The frames are cut from one df_raw, so they have the same length.       *)
(***************************************************************************)
tickers == <<"AAPL", "MSFT">>
strategy_name == "example_ema_crossover"
BatchPrices == {0, 1, 2}
FramesOfLen(n) ==
    {[kind |-> k, rows |-> <<>>] : k \in {"nokey", "noclose", "raises"}}
    \cup {[kind |-> "frame", rows |-> r] :
            r \in [1..n -> {Row(p, sg) : p \in BatchPrices, sg \in Signals}]}

\* lines 88-91: the report with the strategy's name, as a frame of one row
ResultsDf(report) == <<("strategy_name" :> strategy_name) @@ report>>

(***************************************************************************)
(* save_results_to_excel, lines 97-169.  A frame is the sequence of its    *)
(* rows and every row has a strategy_name; writing the rows to the file    *)
(* and reading them back returns the rows.                                 *)
(***************************************************************************)
\* lines 108-115: no file, or a file that cannot be read, gives no sheets
ExistingSheets(wb, readOk) == IF readOk THEN wb ELSE EmptyDict

\* line 126: the strategy of a frame is the one of its first row
StrategyOf(frame) == frame[1].strategy_name
StrategiesIn(sheet) == {sheet[i].strategy_name : i \in 1..Len(sheet)}

\* lines 122-151: the sheet written for a ticker of results_dict
UpdatedSheet(existing, tk, frame) ==
    IF tk \in DOMAIN existing
    THEN IF StrategyOf(frame) \in StrategiesIn(existing[tk])
         THEN existing[tk]
         ELSE existing[tk] \o frame
    ELSE frame

\* lines 118-156
SheetsToWrite(existing, rd) ==
    LET given == {tk \in DOMAIN rd : rd[tk] # <<>>}
    IN  [tk \in given \cup DOMAIN existing |->
            IF tk \in given THEN UpdatedSheet(existing, tk, rd[tk])
            ELSE existing[tk]]

\* lines 158-166: the file is replaced by the sheets to write, if any
SaveResultsToExcel(wb, rd, readOk) ==
    LET w == SheetsToWrite(ExistingSheets(wb, readOk), rd)
    IN  IF DOMAIN w # {} THEN w ELSE wb

(***************************************************************************)
(* Calls of save_results_to_excel on one workbook file.  A results_dict    *)
(* gives some of the tickers a frame of rows of different strategies, or   *)
(* an empty frame; saved keeps the argument of the last call.              *)
(***************************************************************************)
Strategies == {"ema_crossover", "sma_crossover"}
SheetRow(s) == [strategy_name |-> s]
RowSeqs(n) == [1..n -> {SheetRow(s) : s \in Strategies}]
SaveFrames ==
    {f \in UNION {RowSeqs(n) : n \in 0..MaxRows} :
        \A i, j \in 1..Len(f) : f[i] = f[j] => i = j}
SaveTickers == {tickers[i] : i \in 1..Len(tickers)}
ResultsDicts == UNION {[d -> SaveFrames] : d \in SUBSET SaveTickers}

\* lines 107-110 and 117-166: there is no file, or the file is read
SaveCall ==
    \E rd \in ResultsDicts :
        /\ workbook' = SaveResultsToExcel(workbook, rd, TRUE)
        /\ saved' = rd
        /\ UNCHANGED <<frames, t, batch_results, bpc, remembered>>
        /\ UNCHANGED simVars

\* lines 108-113 and 117-166: the file exists and pd.read_excel raises
SaveCallReadFails ==
    \E rd \in ResultsDicts :
        /\ workbook # EmptyDict
        /\ workbook' = SaveResultsToExcel(workbook, rd, FALSE)
        /\ saved' = rd
        /\ UNCHANGED <<frames, t, batch_results, bpc, remembered>>
        /\ UNCHANGED simVars

InitSave ==
    /\ SimIdle
    /\ BatchIdle
    /\ OuterIdle

NextSave == SaveCall \/ SaveCallReadFails

SpecSave == InitSave /\ [][NextSave]_vars

\* lines 82-85: the strategy call and backtest with its default arguments
RunTicker(frame) ==
    IF frame.kind = "raises" THEN [exc |-> "StrategyError", report |-> NoReport]
    ELSE Backtest(frame.rows, DefaultCapital, Zero)

\* lines 65-79: the ticker is skipped with a message
Skipped(frame) == frame.kind \in {"nokey", "noclose"}

InitBatch ==
    /\ df = <<>>
    /\ initial_capital = DefaultCapital
    /\ fee = Zero
    /\ capital = Int2R(DefaultCapital)
    /\ position = Zero
    /\ equity = <<>>
    /\ trades = <<>>
    /\ pc = "idle"
    /\ exc = "none"
    /\ results = NoReport
    /\ \E n \in 0..MaxLenBatch :
          frames \in [1..Len(tickers) -> FramesOfLen(n)]
    /\ t = 0
    /\ batch_results = EmptyDict
    /\ saved = EmptyDict
    /\ bpc = "loop"
    /\ OuterIdle

\* one iteration of the loop of line 61; an exception of line 82 or 85 is
\* caught nowhere and ends the script
TickerStep ==
    /\ bpc = "loop"
    /\ t < Len(tickers)
    /\ t' = t + 1
    /\ LET frame == frames[t + 1]
           run == RunTicker(frame)
       IN  IF Skipped(frame)
           THEN UNCHANGED <<batch_results, bpc>>
           ELSE IF run.exc # "none"
                THEN /\ bpc' = "aborted"
                     /\ UNCHANGED batch_results
                ELSE /\ batch_results' =
                           (tickers[t + 1] :> ResultsDf(run.report))
                           @@ batch_results
                     /\ UNCHANGED bpc
    /\ UNCHANGED <<frames, saved>>
    /\ UNCHANGED simVars
    /\ UNCHANGED outerVars

\* line 95: the script starts without a workbook file or reads the one it
\* finds
Save ==
    /\ bpc = "loop"
    /\ t = Len(tickers)
    /\ saved' = batch_results
    /\ workbook' = SaveResultsToExcel(workbook, batch_results, TRUE)
    /\ bpc' = "saved"
    /\ UNCHANGED <<frames, t, batch_results, remembered>>
    /\ UNCHANGED simVars

NextBatch == TickerStep \/ Save

SpecBatch == InitBatch /\ [][NextBatch]_vars


(***************************************************************************)
(* Properties of the position simulator, checked under Spec.               *)
(***************************************************************************)
Flat == RIsZero(position)
LastRow == df[Len(df)]
AllSignalsZero == \A k \in 1..Len(df) : df[k].signal = 0

\* C1: with valid inputs, after every time step exactly one of units == 0
\* (flat) and cash == 0 (fully invested) holds: never both non-zero, never
\* both zero.
FlatInvestedExclusive ==
    ValidInput => (RIsZero(position) /\ ~RIsZero(capital))
                  \/ (~RIsZero(position) /\ RIsZero(capital))

\* an entry, an exit and a second entry have happened
FlatInvestedWitness ==
    /\ pc = "loop" /\ Len(trades) = 3
    /\ RIsZero(capital) /\ RPos(position)

\* C2: after any prefix of steps the ledger's kinds alternate buy, sell,
\* buy, ... starting with a buy, so it is empty, fully paired or has one
\* trailing unmatched buy; and it ends with an unmatched buy exactly when
\* units > 0.
LedgerAlternates ==
    /\ \A k \in 1..Len(trades) :
          trades[k][1] = IF k % 2 = 1 THEN "buy" ELSE "sell"
    /\ (Len(trades) % 2 = 1) <=> RPos(position)

\* a run that ends holding a position after a completed pair: the ledger
\* is buy, sell, buy
LedgerWitness ==
    /\ pc = "done" /\ ~Flat
    /\ Len(trades) = 3 /\ trades[3][1] = "buy"
    /\ LastRow.signal = 0

\* C3: a step with signal +1 while a position is held, with signal -1
\* while flat, or with signal 0 leaves cash, units and the ledger unchanged
\* and appends exactly one equity value.
EdgeTriggered ==
    [][(Len(df') = Len(df) + 1 /\ pc' = "loop"
        /\ LET sg == df'[Len(df')].signal
           IN  \/ sg = 0
               \/ sg = 1 /\ RPos(position)
               \/ sg = -1 /\ RIsZero(position))
       => /\ capital' = capital
          /\ position' = position
          /\ trades' = trades
          /\ Len(equity') = Len(equity) + 1
          /\ SubSeq(equity', 1, Len(equity)) = equity]_vars

\* a -1 was handled while flat, then an entry, then a +1 while holding
EdgeTriggeredWitness ==
    /\ Len(df) = 3
    /\ df[1].signal = -1 /\ df[2].signal = 1 /\ df[3].signal = 1
    /\ Len(trades) = 1 /\ Len(equity) = 3

\* C4: one equity value is appended per time step whether or not a
\* transition occurred: the curve is as long as the series, the value of a
\* step is cash + units x price at that step's price, and the returned
\* equity_curve is that curve.
EquityPerStep ==
    /\ Len(equity) = Len(df)
    /\ Len(df) > 0 =>
          equity[Len(equity)] =
             RAdd(capital, RMul(position, Int2R(LastRow.Close)))
    /\ pc = "done" =>
          /\ results.equity_curve = equity
          /\ Len(results.equity_curve) = Len(df)
          /\ results.final_value =
                RAdd(capital, RMul(position, Int2R(LastRow.Close)))

\* a returned curve of a run whose last steps made no transition and which
\* still holds its position at a price other than the entry price
EquityPerStepWitness ==
    /\ pc = "done" /\ Len(df) = 3
    /\ df[1].signal = 1 /\ df[2].signal = 0 /\ df[3].signal = 0
    /\ df[3].Close # df[1].Close
    /\ RPos(position)

\* C5: for a signal series that is 0 at every step, the equity curve is
\* initial_capital at every step and the ledger stays empty.
AllZeroFlat ==
    AllSignalsZero =>
        /\ trades = <<>>
        /\ \A k \in 1..Len(equity) : equity[k] = Int2R(initial_capital)
        /\ pc = "done" =>
              \A k \in 1..Len(results.equity_curve) :
                 results.equity_curve[k] = Int2R(initial_capital)

\* a returned all-zero run over changing prices with a fee
AllZeroWitness ==
    /\ pc = "done" /\ Len(df) = 3 /\ AllSignalsZero
    /\ df[1].Close # df[2].Close
    /\ ~RIsZero(fee)


(***************************************************************************)
(* Error handling.                                                         *)
(***************************************************************************)
Returned == pc = "done"
Ended == pc \in {"done", "raised"}

\* C6: on a precondition violation (a price <= 0, a fee outside [0,1))
\* backtest fails with an error instead of returning a report.  Checked
\* under SpecAny.  (A frame's columns share one index, so series of
\* different lengths cannot be passed.)
FailsFast == Returned => ValidInput

RunSucceeds(k) == ~Skipped(frames[k]) /\ RunTicker(frames[k]).exc = "none"

\* C7: in the batch, a failure for one ticker aborts only that ticker's
\* run: once the script has ended, every ticker whose own run succeeds is in
\* the results passed to save_results_to_excel.  Checked under SpecBatch.
BatchIsolation ==
    \A k \in 1..Len(tickers) :
        (RunSucceeds(k) /\ bpc \in {"saved", "aborted"}) =>
            bpc = "saved" /\ tickers[k] \in DOMAIN saved

(***************************************************************************)
(* Properties of the metrics, checked under Spec.                          *)
(***************************************************************************)
IsBuy(tr) == tr[1] = "buy"
IsSell(tr) == tr[1] = "sell"
Entries == SelectSeq(trades, IsBuy)
Exits == SelectSeq(trades, IsSell)
\* the k-th exit's recorded price minus the k-th entry's
PairPnl == [k \in 1..Len(Exits) |-> RSub(Exits[k][2], Entries[k][2])]
WinningPairs == {k \in 1..Len(Exits) : RPos(PairPnl[k])}
BreakEvenPairs == {k \in 1..Len(Exits) : RIsZero(PairPnl[k])}
ConstantEquity == \A k \in 1..Len(equity) : equity[k] = equity[1]

\* C8: the k-th entry is paired with the k-th exit; trade_count is the
\* number of completed pairs, floor(ledger length / 2); a trailing
\* unmatched entry contributes to none of trade_count, win_rate, avg_win,
\* avg_loss, profit_factor, while its position is valued in the curve.
PairingInOrder ==
    Returned =>
        /\ results.trade_count = Len(trades) \div 2
        /\ results.trade_count = Len(Exits)
        /\ results.win_rate = WinRate(PairPnl)
        /\ results.avg_win = AvgWin(PairPnl)
        /\ results.avg_loss = AvgLoss(PairPnl)
        /\ results.profit_factor = ProfitFactor(PairPnl)
        /\ Len(trades) % 2 = 1 =>
              results.final_value = RMul(position, Int2R(LastRow.Close))

\* a completed pair with a non-zero PnL followed by an unmatched entry
PairingWitness ==
    /\ Returned /\ Len(trades) = 3
    /\ ~RIsZero(PairPnl[1])
    /\ RPos(position)

\* C9: a run with zero completed trades returns a report without raising,
\* with trade_count 0, win_rate undefined, avg_win 0, avg_loss 0,
\* profit_factor undefined and, when the curve is constant, sharpe
\* undefined.
DegenerateNotError ==
    (Ended /\ Len(trades) < 2) =>
        /\ Returned
        /\ results.trade_count = 0
        /\ IsNaN(results.win_rate)
        /\ results.avg_win = Zero
        /\ results.avg_loss = Zero
        /\ IsNaN(results.profit_factor)
        /\ ConstantEquity => ~results.sharpe.defined

\* the part of C9 the code meets: the same for a frame of at least one row
DegenerateNotErrorNonEmpty ==
    (Ended /\ Len(trades) < 2 /\ Len(df) > 0) =>
        /\ Returned
        /\ results.trade_count = 0
        /\ IsNaN(results.win_rate)
        /\ results.avg_win = Zero
        /\ results.avg_loss = Zero
        /\ IsNaN(results.profit_factor)
        /\ ConstantEquity => ~results.sharpe.defined

\* C10: win_rate is (completed pairs with exit price - entry price > 0) /
\* trade_count, break-even pairs counting in the denominator only, and is
\* undefined exactly when trade_count = 0.
WinRateDefinition ==
    Returned =>
        /\ IsNaN(results.win_rate) <=> results.trade_count = 0
        /\ results.trade_count # 0 =>
              results.win_rate =
                 Rat(Cardinality(WinningPairs), results.trade_count)
        /\ (Len(Exits) = 1 /\ RNegative(PairPnl[1])) => results.win_rate = Zero
        /\ (Len(Exits) = 1 /\ RPos(PairPnl[1])) => results.win_rate = One

\* a winning pair and a break-even pair: win_rate 1/2
WinRateWitness ==
    /\ Returned /\ results.trade_count = 2
    /\ Cardinality(WinningPairs) = 1 /\ Cardinality(BreakEvenPairs) = 1
    /\ results.win_rate = Rat(1, 2)


LosingPairs == {k \in 1..Len(Exits) : RNegative(PairPnl[k])}

RECURSIVE SumPairs(_)
SumPairs(S) ==
    IF S = {} THEN Zero
    ELSE LET k == CHOOSE x \in S : TRUE
         IN  RAdd(PairPnl[k], SumPairs(S \ {k}))

\* C11: profit_factor is undefined exactly when no completed pair has a
\* strictly negative PnL (no trades, only wins, only break-evens);
\* otherwise it is -sum(winning PnL) / sum(losing PnL), which is >= 0, and
\* 0 when there are losses and no wins.  Scenario C (fee 0.01, 100 -> 110)
\* records PnL 7.9, win_rate 1 and an undefined profit_factor.  Checked
\* under SpecScenarioC.
ProfitFactorDefinition ==
    Returned =>
        /\ IsNaN(results.profit_factor) <=> LosingPairs = {}
        /\ LosingPairs # {} =>
              /\ results.profit_factor =
                    RDiv(RNeg(SumPairs(WinningPairs)), SumPairs(LosingPairs))
              /\ RLe(Zero, results.profit_factor)
              /\ WinningPairs = {} => results.profit_factor = Zero
        /\ (/\ fee = Rat(1, 100) /\ Len(df) = 2
            /\ df[1] = Row(100, 1) /\ df[2] = Row(110, -1)) =>
              /\ PairPnl = <<Rat(79, 10)>>
              /\ results.win_rate = One
              /\ IsNaN(results.profit_factor)

\* a winning and a losing pair: a defined, positive profit_factor
ProfitFactorWitness ==
    /\ Returned /\ results.trade_count = 2
    /\ Cardinality(WinningPairs) = 1 /\ Cardinality(LosingPairs) = 1
    /\ RPos(results.profit_factor)


\* the largest equity up to and including step k
PeakAt(k) ==
    CHOOSE v \in {equity[j] : j \in 1..k} : \A j \in 1..k : RLe(equity[j], v)
DrawdownAt(k) == RDiv(RSub(equity[k], PeakAt(k)), PeakAt(k))
DeepestDrawdown ==
    CHOOSE d \in {DrawdownAt(k) : k \in 1..Len(equity)} :
        \A k \in 1..Len(equity) : RLe(d, DrawdownAt(k))
NonDecreasing == \A k \in 2..Len(equity) : RLe(equity[k - 1], equity[k])
ScenarioACurve == <<Int2R(100), Int2R(120), Int2R(90), Int2R(90)>>

\* C12: for a run with valid inputs max_drawdown, the minimum over steps
\* of (equity - running_peak) / running_peak, is <= 0, and is exactly 0
\* when the equity curve is non-decreasing; the equity path
\* [100, 120, 90, 90] gives -0.25.  Checked under SpecScenarioA.
MaxDrawdownBound ==
    (Returned /\ ValidInput) =>
        /\ results.max_drawdown = DeepestDrawdown
        /\ RLe(results.max_drawdown, Zero)
        /\ NonDecreasing => results.max_drawdown = Zero
        /\ equity = ScenarioACurve => results.max_drawdown = Rat(-1, 4)

\* scenario A: prices 10, 12, 9, 11 and signals 1, 0, -1, 0
MaxDrawdownWitness ==
    /\ Returned
    /\ df = <<Row(10, 1), Row(12, 0), Row(9, -1), Row(11, 0)>>
    /\ results.equity_curve = ScenarioACurve
    /\ results.max_drawdown = Rat(-1, 4)


(***************************************************************************)
(* The two transitions and their effect on equity.                         *)
(***************************************************************************)
\* a step of the loop: the row it handled is the last of df'
StepTaken == Len(df') = Len(df) + 1 /\ pc' = "loop"
NewRow == df'[Len(df')]
LastEquity == IF equity = <<>> THEN Int2R(initial_capital) ELSE equity[Len(equity)]

\* C15: on a step with signal +1 while flat, units = cash / price at the
\* raw price, cash = 0, and one entry record priced price x (1 + fee) is
\* appended; the fee is not deducted from the units, so the equity
\* recorded at the entry step equals the cash held just before the entry.
EntryStep ==
    [][(StepTaken /\ NewRow.signal = 1 /\ RIsZero(position))
       => /\ position' = RDiv(capital, Int2R(NewRow.Close))
          /\ capital' = Zero
          /\ trades' = Append(trades,
                <<"buy", RMul(Int2R(NewRow.Close), RAdd(One, fee))>>)
          /\ equity' = Append(equity, capital)]_vars

\* a second entry with a fee, after a completed pair changed the cash
EntryStepWitness ==
    /\ pc = "loop" /\ Len(trades) = 3 /\ ~RIsZero(fee)
    /\ LastRow.signal = 1
    /\ equity[Len(equity)] # Int2R(initial_capital)
    /\ equity[Len(equity)] = equity[Len(equity) - 1]

\* C16: on a step with signal -1 while holding, cash = units x price x
\* (1 - fee), units = 0, and one exit record priced price x (1 - fee) is
\* appended; the equity recorded at that step equals the new cash.  An
\* entry at 100 and an exit at 110 with fee 0.01 records 101 and 108.9 and
\* turns cash C into 1.089 x C.  Checked under SpecScenarioC.
ExitStep ==
    [][(StepTaken /\ NewRow.signal = -1 /\ RPos(position))
       => /\ capital' =
                RMul(position, RMul(Int2R(NewRow.Close), RSub(One, fee)))
          /\ position' = Zero
          /\ trades' = Append(trades,
                <<"sell", RMul(Int2R(NewRow.Close), RSub(One, fee))>>)
          /\ equity' = Append(equity, capital')
          /\ (fee = Rat(1, 100) /\ df' = <<Row(100, 1), Row(110, -1)>>) =>
                /\ trades' = <<<<"buy", Int2R(101)>>, <<"sell", Rat(1089, 10)>>>>
                /\ capital' = RMul(Rat(1089, 1000), Int2R(initial_capital))]_vars

\* the round trip of scenario C
ExitStepWitness ==
    /\ fee = Rat(1, 100)
    /\ df = <<Row(100, 1), Row(110, -1)>>
    /\ trades = <<<<"buy", Int2R(101)>>, <<"sell", Rat(1089, 10)>>>>
    /\ capital = Int2R(108900) /\ Flat
    /\ equity = <<Int2R(100000), Int2R(108900)>>

\* C18: equity changes only while a position is carried or at an exit: at
\* a step at which the simulator is flat before the signal is handled (an
\* entry step included) the recorded equity equals the one recorded at the
\* step before (initial_capital at the first step), for any fee and price.
FlatEquityConstant ==
    [][(StepTaken /\ RIsZero(position))
       => equity'[Len(equity')] = LastEquity]_vars

\* an entry at a fee and at a price other than the previous exit's, after
\* a pair that changed the cash
FlatEquityWitness ==
    /\ pc = "loop" /\ Len(df) = 4 /\ Len(trades) = 3 /\ ~RIsZero(fee)
    /\ df[4].signal = 1 /\ df[4].Close # df[3].Close
    /\ equity[4] = equity[3] /\ equity[3] # Int2R(initial_capital)


\* the locals after the first j rows of df
StateAfter(j) ==
    RunLoop(SimState(Int2R(initial_capital), Zero, <<>>, <<>>),
            SubSeq(df, 1, j), fee).st
\* the step that appended the n-th record of the ledger
StepOfTrade(n) ==
    CHOOSE j \in 1..Len(df) :
        Len(StateAfter(j).trades) = n /\ Len(StateAfter(j - 1).trades) = n - 1
CashBeforeEntry(k) == StateAfter(StepOfTrade(2 * k - 1) - 1).capital
CashAfterExit(k) == StateAfter(StepOfTrade(2 * k)).capital

\* C19: with valid inputs every completed pair counted as a win (recorded
\* exit price - recorded entry price > 0) increased cash: the cash after
\* its exit is strictly greater than the cash held just before its entry;
\* so a fully paired run whose pairs are all wins has
\* final_value > initial_capital.
WinIncreasesCash ==
    (ValidInput /\ pc # "raised") =>
        /\ \A k \in WinningPairs : RLt(CashBeforeEntry(k), CashAfterExit(k))
        /\ (/\ Returned /\ Len(trades) % 2 = 0 /\ Len(Exits) > 0
            /\ Cardinality(WinningPairs) = Len(Exits)) =>
              RLt(Int2R(initial_capital), results.final_value)

\* two winning pairs at a fee, returned
WinIncreasesCashWitness ==
    /\ Returned /\ ~RIsZero(fee)
    /\ Len(trades) = 4 /\ Cardinality(WinningPairs) = 2
    /\ RLt(CashBeforeEntry(2), CashAfterExit(2))
    /\ RLt(CashAfterExit(1), results.final_value)

(***************************************************************************)
(* C14: save_results_to_excel avoids duplicate saves: after any sequence   *)
(* of calls no sheet of the workbook holds the same strategy_name in two   *)
(* rows, i.e. no ticker + strategy combination is stored twice.            *)
(***************************************************************************)
NoDuplicateCombination ==
    \A tk \in DOMAIN workbook :
        \A i, j \in 1..Len(workbook[tk]) :
            workbook[tk][i].strategy_name = workbook[tk][j].strategy_name
                => i = j

\* the last part of the claim, for calls that can read the file: saving the
\* same results a second time leaves the workbook as the first save left it
SaveTwiceAsOnce ==
    \A rd \in ResultsDicts :
        LET once == SaveResultsToExcel(workbook, rd, TRUE)
        IN  SaveResultsToExcel(once, rd, TRUE) = once

(***************************************************************************)
(* C17: save_results_to_excel never loses stored data: every sheet of the  *)
(* workbook before a call is a sheet after it, and every row of the sheet  *)
(* is still a row of it, also when reading the existing file fails.        *)
(***************************************************************************)
Kept(before, after) ==
    \A tk \in DOMAIN before :
        /\ tk \in DOMAIN after
        /\ \A i \in 1..Len(before[tk]) :
               \E j \in 1..Len(after[tk]) : after[tk][j] = before[tk][i]

NoDataLost == [][Kept(workbook, workbook')]_vars

(***************************************************************************)
(* Successive calls of backtest.  Every call creates its locals anew       *)
(* (lines 22-25); the module keeps no global and the frame is only read.   *)
(* remembered keeps the arguments and the outcome of one ended call, and   *)
(* whether other calls were made since.                                    *)
(***************************************************************************)
RepeatPrices == {1, 2}
RepeatFee == Rat(1, 10)

Outcome(between) ==
    [df |-> df, initial_capital |-> initial_capital, fee |-> fee,
     pc |-> pc, exc |-> exc, equity |-> equity, trades |-> trades,
     results |-> results, between |-> between]

\* lines 22-25; prev, the locals of the call before, is not read
FreshLocalsKeepLedger(cap, prev) == SimState(Int2R(cap), Zero, <<>>, prev.trades)
FreshLocals(cap, prev) == SimState(Int2R(cap), Zero, <<>>, <<>>)

LoopStepRepeat ==
    /\ Len(df) < MaxLenRepeat
    /\ \E price \in RepeatPrices, signal \in Signals : Iterate(price, signal)

\* the call has ended and backtest is called again
CallAgain ==
    /\ Ended
    /\ \E keep \in BOOLEAN :
          remembered' =
              IF remembered # <<>>
              THEN <<[remembered[1] EXCEPT !.between = TRUE]>>
              ELSE IF keep THEN <<Outcome(FALSE)>> ELSE <<>>
    /\ LET n == FreshLocals(DefaultCapital, Cur)
       IN  /\ capital' = n.capital
           /\ position' = n.position
           /\ equity' = n.equity
           /\ trades' = n.trades
    /\ df' = <<>>
    /\ initial_capital' = DefaultCapital
    /\ fee' = RepeatFee
    /\ pc' = "loop"
    /\ exc' = "none"
    /\ results' = NoReport
    /\ UNCHANGED workbook
    /\ UNCHANGED batchVars

InitRepeat ==
    /\ SimStart(DefaultCapital, RepeatFee)
    /\ BatchIdle
    /\ OuterIdle

NextRepeat == LoopStepRepeat \/ Aggregate \/ CallAgain

SpecRepeat == InitRepeat /\ [][NextRepeat]_vars

SameArguments(o) ==
    /\ o.df = df
    /\ o.initial_capital = initial_capital
    /\ o.fee = fee

(***************************************************************************)
(* C13: backtest is deterministic and keeps no state across invocations:   *)
(* a call that has ended with the arguments of an earlier call, whatever   *)
(* calls were made in between, has ended the same way with the same equity *)
(* curve, trade ledger and report.                                         *)
(***************************************************************************)
Deterministic ==
    (Ended /\ remembered # <<>> /\ SameArguments(remembered[1])) =>
        /\ remembered[1].pc = pc
        /\ remembered[1].exc = exc
        /\ remembered[1].equity = equity
        /\ remembered[1].trades = trades
        /\ remembered[1].results = results

DeterministicWitness ==
    /\ Returned
    /\ remembered # <<>>
    /\ remembered[1].between
    /\ SameArguments(remembered[1])
    /\ Len(trades) = 2

=============================================================================
